---- MODULE Spec2Model ----
(***************************************************************************)
(* Registry-change validation pipeline of inkdown-community.               *)
(*                                                                         *)
(* scripts/validate-pr.mjs (the orchestrator) classifies the changed       *)
(* paths of a pull request, rejects a change touching both registries,     *)
(* skips a change touching none, and otherwise runs, as synchronous        *)
(* sub-processes, validate-json.mjs, validate-plugins.mjs (plugins only)   *)
(* and validate-releases.mjs, folds their exit codes into `success`,       *)
(* labels the pull request and exits.                                      *)
(*                                                                         *)
(* Strings are sequences of one-character strings, so that startsWith,     *)
(* includes and the "v" prefix are computed, not assumed.  The JavaScript  *)
(* value undefined is the one-element sequence Undefined.                  *)
(*                                                                         *)
(* The environment: the orchestrator runs in the root of the repository,   *)
(* where package.json, plugins.json and themes.json exist and parse as     *)
(* arrays (so validate-releases.mjs does not chdir); git, the remote       *)
(* hosts and the content of the registries are free.                       *)
(***************************************************************************)
EXTENDS Integers, Sequences, FiniteSets, TLC

\* ------------------------------------------------------------------ bounds

\* Longest registry snapshot drawn for the resolver specification.
MaxEntries == 2
\* Longest current snapshot of the registry a pipeline run validates.
MaxChanged == 2

\* ------------------------------------------------------------- JS values

Undefined == <<"undefined">>

\* !x for the values of the model: undefined and the empty string are falsy.
Falsy(x) == x = Undefined \/ x = <<>>

\* String.prototype.startsWith
startsWith(s, p) == Len(s) >= Len(p) /\ SubSeq(s, 1, Len(p)) = p

\* String.prototype.endsWith
endsWith(s, p) == Len(s) >= Len(p) /\ SubSeq(s, Len(s) - Len(p) + 1, Len(s)) = p

\* String.prototype.includes / Array.prototype.includes on a sequence
includes(s, p) ==
  \E i \in 0..(Len(s) - Len(p)) : \A k \in 1..Len(p) : s[i + k] = p[k]

\* Array.prototype.includes for one element
hasElem(s, e) == \E i \in 1..Len(s) : s[i] = e

\* String.prototype.replace(p, '') with a string pattern: the first occurrence
\* of p is removed, wherever it is.
replaceFirst(s, p) ==
  IF ~includes(s, p) THEN s
  ELSE LET i == CHOOSE k \in 0..Len(s) :
                  /\ k + Len(p) <= Len(s)
                  /\ SubSeq(s, k + 1, k + Len(p)) = p
                  /\ \A j \in 0..(k - 1) : SubSeq(s, j + 1, j + Len(p)) # p
       IN SubSeq(s, 1, i) \o SubSeq(s, i + Len(p) + 1, Len(s))

\* ------------------------------------------------------------- constants

PLUGINS_FILE == <<"p","l","u","g","i","n","s",".","j","s","o","n">>
THEMES_FILE == <<"t","h","e","m","e","s",".","j","s","o","n">>

README == <<"R","E","A","D","M","E",".","m","d">>
\* a path that only contains a registry filename: docs/themes.json.md
DocsThemes == <<"d","o","c","s","/">> \o THEMES_FILE \o <<".","m","d">>

\* Version strings: "1.2.0", "v1.2.0" and the empty string.
V120 == <<"1",".","2",".","0">>
VV120 == <<"v">> \o V120
Versions == {V120, VV120, <<>>, Undefined}

IdP == <<"p">>
IdQ == <<"q">>
Ids == {IdP, IdQ}

\* Repository references; a URL is a sequence of characters, the host prefix
\* and the owner/name being kept as one token each.
HttpsHost == <<"https://github.com/">>
HttpHost == <<"http://github.com/">>
Slash == <<"/">>
RepoA == HttpsHost \o <<"o/a">>
RepoB == HttpHost \o <<"o/b">> \o Slash

Dark == "dark"
Light == "light"

\* A registry entry: the fields of plugins.json / themes.json the pipeline reads.
Entry(i, v, r, m) == [id |-> i, version |-> v, repo |-> r, modes |-> m]

\* process.exit(0) and process.exit(1)
ExitOk == 0
ExitFail == 1

\* ------------------------------------------------------------- variables

VARIABLES
  files,            \* [kind -> [cur, base]]: working copy and origin/main copy
  pc,               \* orchestrator position
  actualChanged,    \* paths the pull request really changed
  diffFailed,       \* the git diff command failed
  changedFiles,     \* validate-pr.mjs: changedFiles
  pluginsModified,
  themesModified,
  success,
  stages,           \* sub-scripts still to run, in order
  stageLog,         \* sub-scripts run so far with their exit status
  exitCode,         \* -1 while running
  verdict,          \* how the run ended: Rejected, Skipped, Pass, Fail
  netLog,           \* kinds of network operations performed so far
  labelCalls,       \* gh pr edit invocations: <<add>>, <<remove>>
  scanned,          \* validate-plugins.mjs: ids of diffPlugins
  rpc,              \* validate-releases.mjs position
  rArgs,            \* process.argv.slice(2)
  rQueue,           \* entries still to validate: <<kind, entry>>
  rEntry,           \* <<kind, entry>> under validation
  versionsToTry,
  probes,           \* existence probes of the required asset: <<tag, ok, url>>
  baseUrl,
  foundVersion,
  manifest,
  requests,         \* follow-up requests of the entry: <<url, result>>
  diag,             \* diagnostics of the entry under validation
  entryValid,       \* manifestValid / cssValid of the entry under validation
  allValid,
  entryLog,         \* outcome of every entry validated by this sub-process
  rExit,            \* exit status of validate-releases.mjs, -1 while running
  rsCur, rsBase, rsOut, rsPc   \* resolver specification: inputs and result

vars == <<files, pc, actualChanged, diffFailed, changedFiles, pluginsModified,
          themesModified, success, stages, stageLog, exitCode, verdict, netLog,
          labelCalls, scanned, rpc, rArgs, rQueue, rEntry, versionsToTry,
          probes, baseUrl, foundVersion, manifest, requests, diag, entryValid,
          allValid, entryLog, rExit, rsCur, rsBase, rsOut, rsPc>>

orchVars == <<pc, actualChanged, diffFailed, changedFiles, pluginsModified,
              themesModified, success, stages, stageLog, exitCode, verdict,
              labelCalls, scanned>>
relVars == <<rpc, rArgs, rQueue, rEntry, versionsToTry, probes, baseUrl,
             foundVersion, manifest, requests, diag, entryValid, allValid,
             entryLog, rExit>>
rsVars == <<rsCur, rsBase, rsOut, rsPc>>

\* ----------------------------------------------------- ChangeSetResolver

\* Array.prototype.find(oldItem => oldItem.id === id): the first match as a
\* one-element sequence, the empty sequence when find returns undefined.
RECURSIVE findById(_, _)
findById(items, id) ==
  IF items = <<>> THEN <<>>
  ELSE IF Head(items).id = id THEN <<Head(items)>>
  ELSE findById(Tail(items), id)

versionChangedMutNewOnly(mainItems, item) ==
  Len(findById(mainItems, item.id)) = 0

versionChangedMutAnyField(mainItems, item) ==
  LET old == findById(mainItems, item.id)
  IN Len(old) = 0 \/ old[1] # item

\* The filter predicate of getModifiedItems: !old || old.version !== item.version
versionChanged(mainItems, item) ==
  LET old == findById(mainItems, item.id)
  IN Len(old) = 0 \/ old[1].version # item.version

\* currentItems.filter(item => ...)
RECURSIVE filterChanged(_, _)
filterChanged(currentItems, mainItems) ==
  IF currentItems = <<>> THEN <<>>
  ELSE (IF versionChanged(mainItems, Head(currentItems))
          THEN <<Head(currentItems)>> ELSE <<>>)
       \o filterChanged(Tail(currentItems), mainItems)

\* What git show origin/main:<file> can do: print the file, print nothing
\* (an empty file), fail (no such ref or path: nothing on stdout), or fail to
\* spawn (Bun.spawnSync throws).
ShowOutcomes == {"printed", "nothing", "failed", "threw"}

\* runGitCommand(['show', ...]) followed by !mainContent: stdout trimmed, or
\* null from the catch; only a printed file is truthy.
mainContentTruthy(base) == base.show = "printed"

getModifiedItemsMutFailClosed(currentItems, base) ==
  IF ~mainContentTruthy(base) THEN <<>> ELSE filterChanged(currentItems, base.items)

\* getModifiedItems, lines 45-61, after the read of the working copy.
getModifiedItems(currentItems, base) ==
  IF ~mainContentTruthy(base) THEN currentItems ELSE filterChanged(currentItems, base.items)

\* ------------------------------------------------------------ the inputs

NoBase == [show |-> "failed", items |-> <<>>]
BaseOf(items) == [show |-> "printed", items |-> items]

\* Sequences of at most n elements of S.
SeqUpTo(S, n) == UNION {[1..k -> S] : k \in 0..n}

PluginEntries ==
  { Entry(IdP, V120, RepoA, Undefined),
    Entry(IdP, VV120, RepoA, Undefined),
    Entry(IdQ, V120, RepoB, Undefined),
    Entry(IdQ, <<>>, RepoB, Undefined),
    Entry(IdQ, V120, Undefined, Undefined) }

PluginBases ==
  { NoBase,
    BaseOf(<<>>),
    BaseOf(<<Entry(IdP, V120, RepoA, Undefined)>>),
    BaseOf(<<Entry(IdP, V120, RepoB, Undefined), Entry(IdQ, V120, RepoB, Undefined)>>) }

ThemeEntries ==
  { Entry(IdP, V120, RepoA, Undefined),
    Entry(IdP, VV120, RepoA, <<Light, Dark>>),
    Entry(IdQ, V120, RepoB, <<Light>>),
    Entry(IdQ, V120, RepoB, <<>>),
    Entry(IdQ, Undefined, RepoB, <<Dark>>) }

ThemeBases ==
  { NoBase,
    BaseOf(<<>>),
    BaseOf(<<Entry(IdP, V120, RepoA, Undefined)>>),
    BaseOf(<<Entry(IdP, V120, RepoA, <<Dark>>), Entry(IdQ, VV120, RepoB, <<Light>>)>>) }

Snapshot(cur, base) == [cur |-> cur, base |-> base]

\* The registry a run is not about: unchanged, or with one changed entry.
OtherPlugins ==
  { Snapshot(<<Entry(IdP, V120, RepoA, Undefined)>>, BaseOf(<<Entry(IdP, V120, RepoA, Undefined)>>)),
    Snapshot(<<Entry(IdP, VV120, RepoA, Undefined)>>, BaseOf(<<Entry(IdP, V120, RepoA, Undefined)>>)) }
OtherThemes ==
  { Snapshot(<<Entry(IdP, V120, RepoA, <<Dark>>)>>, BaseOf(<<Entry(IdP, V120, RepoA, <<Dark>>)>>)),
    Snapshot(<<Entry(IdP, VV120, RepoA, <<Dark>>)>>, BaseOf(<<Entry(IdP, V120, RepoA, <<Dark>>)>>)) }

RichPlugins == {Snapshot(c, b) : c \in SeqUpTo(PluginEntries, MaxChanged), b \in PluginBases}
RichThemes == {Snapshot(c, b) : c \in SeqUpTo(ThemeEntries, MaxChanged), b \in ThemeBases}

FileStates ==
  {[plugins |-> p, themes |-> t] : p \in RichPlugins, t \in OtherThemes}
  \cup {[plugins |-> p, themes |-> t] : p \in OtherPlugins, t \in RichThemes}

\* What git diff --name-only origin/main...HEAD can list.
ChangedPathLists ==
  { <<>>, <<README>>, <<PLUGINS_FILE>>, <<README, THEMES_FILE>>, <<DocsThemes>>,
    <<PLUGINS_FILE, THEMES_FILE>>, <<PLUGINS_FILE, DocsThemes>> }

NoEntry == <<>>

\* fetchJson returning null
NullDoc == [ok |-> FALSE, id |-> Undefined, version |-> Undefined]

\* validate-releases.mjs not running
RelIdle ==
  /\ rpc = "idle" /\ rArgs = <<>> /\ rQueue = <<>> /\ rEntry = NoEntry
  /\ versionsToTry = <<>> /\ probes = <<>> /\ baseUrl = <<>> /\ foundVersion = <<>>
  /\ manifest = NullDoc /\ requests = <<>> /\ diag = {} /\ entryValid = TRUE
  /\ allValid = TRUE /\ entryLog = <<>> /\ rExit = -1

RsIdle == rsCur = <<>> /\ rsBase = NoBase /\ rsOut = <<>> /\ rsPc = "off"

Init ==
  /\ files \in FileStates
  /\ pc = "Start"
  /\ actualChanged = <<>>
  /\ diffFailed = FALSE
  /\ changedFiles = <<>>
  /\ pluginsModified = FALSE
  /\ themesModified = FALSE
  /\ success = TRUE
  /\ stages = <<>>
  /\ stageLog = <<>>
  /\ exitCode = -1
  /\ verdict = "none"
  /\ netLog = {}
  /\ labelCalls = <<>>
  /\ scanned = <<>>
  /\ RelIdle
  /\ RsIdle

\* ------------------------------------------------------- ChangeClassifier

touchesMutExact(paths, file) == \E i \in 1..Len(paths) : paths[i] = file

\* changedFiles.some(f => f.includes(FILE))
touches(paths, file) == \E i \in 1..Len(paths) : includes(paths[i], file)

exclusiveViolationMutNegated(p, t) == p /\ ~t

exclusiveViolationMutNever(p, t) == FALSE

\* if (pluginsModified && themesModified)
exclusiveViolation(p, t) == p /\ t

noRegistryModifiedMutEither(p, t) == ~p \/ ~t

\* if (!pluginsModified && !themesModified)
noRegistryModified(p, t) == ~p /\ ~t

\* runGitCommand(['diff', ...]): stdout of the command; a failed git prints
\* nothing on stdout and the failure is only logged.
diffOutput(actual, ok) == IF ok THEN actual ELSE <<>>

\* main, lines 27-53: fetch origin/main, diff, classify.
Classify ==
  /\ pc = "Start"
  /\ \E actual \in ChangedPathLists, ok \in BOOLEAN :
       /\ actualChanged' = actual
       /\ diffFailed' = ~ok
       /\ changedFiles' = diffOutput(actual, ok)
       /\ pluginsModified' = touches(diffOutput(actual, ok), PLUGINS_FILE)
       /\ themesModified' = touches(diffOutput(actual, ok), THEMES_FILE)
  /\ netLog' = netLog \cup {"git-fetch"}
  /\ pc' = "Classified"
  /\ UNCHANGED <<files, success, stages, stageLog, exitCode, verdict, labelCalls, scanned>>
  /\ UNCHANGED relVars
  /\ UNCHANGED rsVars

rejectExitMutOk == ExitOk

\* process.exit(1) of the exclusivity rule
rejectExit == ExitFail

\* main, lines 55-60
Reject ==
  /\ pc = "Classified"
  /\ exclusiveViolation(pluginsModified, themesModified)
  /\ exitCode' = rejectExit
  /\ verdict' = "Rejected"
  /\ pc' = "Exited"
  /\ UNCHANGED <<files, actualChanged, diffFailed, changedFiles, pluginsModified,
                 themesModified, success, stages, stageLog, netLog, labelCalls, scanned>>
  /\ UNCHANGED relVars
  /\ UNCHANGED rsVars

\* main, lines 62-65
Skip ==
  /\ pc = "Classified"
  /\ ~exclusiveViolation(pluginsModified, themesModified)
  /\ noRegistryModified(pluginsModified, themesModified)
  /\ exitCode' = ExitOk
  /\ verdict' = "Skipped"
  /\ pc' = "Exited"
  /\ UNCHANGED <<files, actualChanged, diffFailed, changedFiles, pluginsModified,
                 themesModified, success, stages, stageLog, netLog, labelCalls, scanned>>
  /\ UNCHANGED relVars
  /\ UNCHANGED rsVars

stagePlanMutReleasesFirst(p, t) ==
  (IF p THEN << <<"releases", "plugins">>, <<"json", "plugins">>, <<"scan", "plugins">> >>
        ELSE <<>>)
  \o (IF t THEN << <<"releases", "themes">>, <<"json", "themes">>, <<"scan", "themes">> >>
        ELSE <<>>)

\* The runScript calls of main, lines 69-85, in program order.
stagePlan(p, t) ==
  (IF p THEN << <<"json", "plugins">>, <<"scan", "plugins">>, <<"releases", "plugins">> >>
        ELSE <<>>)
  \o (IF t THEN << <<"json", "themes">>, <<"releases", "themes">> >> ELSE <<>>)

\* main, line 67: let success = true, entering the validation block
BeginValidation ==
  /\ pc = "Classified"
  /\ ~exclusiveViolation(pluginsModified, themesModified)
  /\ ~noRegistryModified(pluginsModified, themesModified)
  /\ success' = TRUE
  /\ stages' = stagePlan(pluginsModified, themesModified)
  /\ pc' = "Validating"
  /\ UNCHANGED <<files, actualChanged, diffFailed, changedFiles, pluginsModified,
                 themesModified, stageLog, exitCode, verdict, netLog, labelCalls, scanned>>
  /\ UNCHANGED relVars
  /\ UNCHANGED rsVars


\* --------------------------------------------- external collaborators

\* validate-json.mjs, FILES_TO_VALIDATE: the required fields the model carries
\* (name, author and description are part of lintOk).
schema(kind) ==
  IF kind = "plugins" THEN {"id", "version", "repo"} ELSE {"id", "version", "repo", "modes"}

\* validateFile, the forEach over config.schema: missing, or an empty string.
\* modes is an array, never "an empty string".
fieldsOk(item, kind) ==
  \A f \in schema(kind) :
    /\ item[f] # Undefined
    /\ (f # "modes" => item[f] # <<>>)

\* validateFile, the ids set: no truthy id occurs twice.
idsUnique(items) ==
  \A i, j \in 1..Len(items) :
    (i < j /\ ~Falsy(items[i].id)) => items[i].id # items[j].id

\* validateFile: lintOk is the result of checkIndentation and of the fields
\* the model does not carry.
validateFile(items, kind, lintOk) ==
  /\ lintOk
  /\ \A i \in 1..Len(items) : fieldsOk(items[i], kind)
  /\ idsUnique(items)

\* if (!runScript(...)) success = false
foldMutLast(acc, ok) == ok

fold(acc, ok) == IF ~ok THEN FALSE ELSE acc

\* main, lines 72 and 82: runScript('scripts/validate-json.mjs', [file])
RunValidateJson ==
  /\ pc = "Validating"
  /\ stages # <<>>
  /\ Head(stages)[1] = "json"
  /\ \E lintOk \in BOOLEAN :
       LET kind == Head(stages)[2]
           ok == validateFile(files[kind].cur, kind, lintOk)
       IN /\ success' = fold(success, ok)
          /\ stageLog' = Append(stageLog, <<"json", kind, ok>>)
  /\ stages' = Tail(stages)
  /\ UNCHANGED <<files, pc, actualChanged, diffFailed, changedFiles, pluginsModified,
                 themesModified, exitCode, verdict, netLog, labelCalls, scanned>>
  /\ UNCHANGED relVars
  /\ UNCHANGED rsVars

\* validate-plugins.mjs, the filter of diffPlugins: !old || old.repo !== p.repo
repoChanged(mainPlugins, p) ==
  LET old == findById(mainPlugins, p.id)
  IN Len(old) = 0 \/ old[1].repo # p.repo

RECURSIVE filterRepoChanged(_, _)
filterRepoChanged(currentPlugins, mainPlugins) ==
  IF currentPlugins = <<>> THEN <<>>
  ELSE (IF repoChanged(mainPlugins, Head(currentPlugins))
          THEN <<Head(currentPlugins)>> ELSE <<>>)
       \o filterRepoChanged(Tail(currentPlugins), mainPlugins)

\* validate-plugins.mjs, main, lines 343-357: diffPlugins (!mainContent ||
\* proc.exitCode !== 0 is the same test of the same git show)
diffPlugins(currentPlugins, base) ==
  IF ~mainContentTruthy(base) THEN currentPlugins
  ELSE filterRepoChanged(currentPlugins, base.items)

RECURSIVE idsOf(_)
idsOf(items) == IF items = <<>> THEN <<>> ELSE <<Head(items).id>> \o idsOf(Tail(items))

\* main, line 74: runScript('scripts/validate-plugins.mjs').  found: the
\* script finds apps/inkdown-community/plugins.json, possibly after its
\* chdir('../..'), and exits 1 otherwise; shown: its own git show, of that
\* path from that directory, prints the file; clean: validatePlugin finds no
\* forbidden file or token in any cloned repository.
RunValidatePlugins ==
  /\ pc = "Validating"
  /\ stages # <<>>
  /\ Head(stages)[1] = "scan"
  /\ \E found \in BOOLEAN, shown \in BOOLEAN, clean \in BOOLEAN :
       LET base == IF shown THEN files.plugins.base ELSE NoBase
           diff == IF found THEN diffPlugins(files.plugins.cur, base) ELSE <<>>
           ok == found /\ (diff = <<>> \/ clean)
       IN /\ scanned' = idsOf(diff)
          /\ netLog' = IF diff # <<>> THEN netLog \cup {"git-clone"} ELSE netLog
          /\ success' = fold(success, ok)
          /\ stageLog' = Append(stageLog, <<"scan", "plugins", ok>>)
  /\ stages' = Tail(stages)
  /\ UNCHANGED <<files, pc, actualChanged, diffFailed, changedFiles, pluginsModified,
                 themesModified, exitCode, verdict, labelCalls>>
  /\ UNCHANGED relVars
  /\ UNCHANGED rsVars


\* ---------------------------------------------------- ReleaseAssetLocator

MainJs == <<"main.js">>
ThemeJson == <<"theme.json">>
ManifestJson == <<"manifest.json">>
StylesCss == <<"styles.css">>
DarkCss == <<"dark.css">>
LightCss == <<"light.css">>
ReleasesDownload == <<"/releases/download/">>

\* getAssetUrl, lines 64-65: cleanRepo
cleanRepo(repo) ==
  LET stripped == replaceFirst(replaceFirst(repo, HttpsHost), HttpHost)
  IN IF endsWith(stripped, Slash) THEN SubSeq(stripped, 1, Len(stripped) - 1) ELSE stripped

\* getAssetUrl, line 67
getAssetUrl(repo, version, filename) ==
  HttpsHost \o cleanRepo(repo) \o ReleasesDownload \o version \o Slash \o filename

versionsToTryOfMutAlways(version) == <<version, <<"v">> \o version>>

versionsToTryOfMutPrefixFirst(version) ==
  IF ~startsWith(version, <<"v">>) THEN << <<"v">> \o version, version >> ELSE <<version>>

\* validatePluginRelease lines 78-79, validateThemeRelease lines 135-136
versionsToTryOf(version) ==
  IF ~startsWith(version, <<"v">>) THEN <<version, <<"v">> \o version>> ELSE <<version>>

\* What a HEAD or GET request can come back with: a status, a transport
\* error, or nothing at all until the transport's default timeout rejects
\* the fetch (no request carries a timeout of its own).
Responses == {"200", "404", "error", "stalled"}

\* the requests that did not come back with a status
TransportFailures == {"error", "stalled"}

\* what a request leaves in the log of network operations
netKinds(method, status) ==
  {method} \cup (IF status \in TransportFailures THEN {status} ELSE {})

checkUrlExistsMutAny(resp) == resp # "error"

\* checkUrlExists: res.ok, and false when fetch throws
checkUrlExists(resp) == resp = "200"

ManifestDocs == {[ok |-> TRUE, id |-> i, version |-> v] : i \in Ids, v \in {V120, VV120}}

\* What the GET of manifest.json can come back with: a document, a status
\* that is not ok, a transport error, or a body that is not JSON.
ManifestResponses ==
  {[status |-> "200", body |-> d] : d \in ManifestDocs}
  \cup {[status |-> st, body |-> NullDoc] : st \in {"404", "error", "stalled", "badjson"}}

\* fetchJson: the document, or null
fetchJson(resp) == IF resp.status = "200" THEN resp.body ELSE NullDoc

\* the required asset of a registry kind
requiredAsset(kind) == IF kind = "plugins" THEN MainJs ELSE ThemeJson

modesOfMutAlwaysDark(theme) == <<Dark>>

\* theme.modes || ['dark']
modesOf(theme) == IF theme.modes = Undefined THEN <<Dark>> ELSE theme.modes

\* ------------------------------------------------- validate-releases.mjs

RECURSIVE tagged(_, _)
tagged(kind, items) ==
  IF items = <<>> THEN <<>> ELSE << <<kind, Head(items)>> >> \o tagged(kind, Tail(items))

toValidateMutAll(kind, args, modified) == modified

\* main, lines 196-201: the entries selected by the arguments
toValidate(kind, args, modified) ==
  IF args = <<>> \/ hasElem(args, kind) THEN modified ELSE <<>>

\* main, lines 76 and 84 of validate-pr.mjs start the sub-process; lines
\* 184-208 of validate-releases.mjs run to the first entry or to exit(0).
RunValidateReleases ==
  /\ pc = "Validating"
  /\ stages # <<>>
  /\ Head(stages)[1] = "releases"
  /\ rpc = "idle"
  /\ LET args == <<Head(stages)[2]>>
         modifiedPlugins == getModifiedItems(files.plugins.cur, files.plugins.base)
         modifiedThemes == getModifiedItems(files.themes.cur, files.themes.base)
         pluginsToValidate == toValidate("plugins", args, modifiedPlugins)
         themesToValidate == toValidate("themes", args, modifiedThemes)
     IN /\ rArgs' = args
        /\ IF pluginsToValidate = <<>> /\ themesToValidate = <<>>
             THEN /\ rpc' = "done"
                  /\ rExit' = ExitOk
                  /\ rQueue' = <<>>
             ELSE /\ rpc' = "next"
                  /\ rExit' = -1
                  /\ rQueue' = tagged("plugins", pluginsToValidate)
                                 \o tagged("themes", themesToValidate)
  /\ allValid' = TRUE
  /\ pc' = "InReleases"
  /\ UNCHANGED <<files, actualChanged, diffFailed, changedFiles, pluginsModified,
                 themesModified, success, stages, stageLog, exitCode, verdict, netLog,
                 labelCalls, scanned>>
  /\ UNCHANGED <<rEntry, versionsToTry, probes, baseUrl, foundVersion, manifest,
                 requests, diag, entryValid, entryLog>>
  /\ UNCHANGED rsVars

\* main, lines 213-214 and 221-222: if (!valid) allValid = false, then the
\* next iteration of the loop.
FinishEntry(ke, ok) ==
  /\ entryLog' = Append(entryLog, <<ke[1], ke[2].id, IF ok THEN "valid" ELSE "invalid">>)
  /\ allValid' = fold(allValid, ok)
  /\ rpc' = "next"
  /\ rExit' = rExit

\* The loop takes the next entry: validatePluginRelease / validateThemeRelease
\* up to the first await.  A missing version fails the entry at once
\* (lines 73-76, 130-133); getAssetUrl throws on a repo that is not a string
\* (repo.replace), which rejects main and ends the process with status 1.
StartEntry ==
  /\ pc = "InReleases"
  /\ rpc = "next"
  /\ rQueue # <<>>
  /\ rEntry' = Head(rQueue)
  /\ rQueue' = Tail(rQueue)
  /\ probes' = <<>>
  /\ baseUrl' = <<>>
  /\ foundVersion' = <<>>
  /\ manifest' = NullDoc
  /\ requests' = <<>>
  /\ entryValid' = TRUE
  /\ LET e == Head(rQueue)[2]
     IN IF Falsy(e.version)
          THEN /\ versionsToTry' = <<>>
               /\ diag' = {"missing-version"}
               /\ FinishEntry(Head(rQueue), FALSE)
          ELSE /\ versionsToTry' = versionsToTryOf(e.version)
               /\ diag' = {}
               /\ IF e.repo = Undefined
                    THEN /\ rpc' = "done"
                         /\ rExit' = ExitFail
                         /\ entryLog' = Append(entryLog, <<Head(rQueue)[1], e.id, "threw">>)
                         /\ allValid' = allValid
                    ELSE /\ rpc' = "locate"
                         /\ UNCHANGED <<rExit, entryLog, allValid>>
  /\ UNCHANGED <<files, netLog, rArgs>>
  /\ UNCHANGED orchVars
  /\ UNCHANGED rsVars

resolvedBaseMutRegistryVersion(repo, version, v) == getAssetUrl(repo, version, <<>>)

\* baseUrl = getAssetUrl(plugin.repo, v, ''), lines 87 and 144: the base URL
\* of the candidate v whose probe succeeded, for the entry of that version
resolvedBase(repo, version, v) == getAssetUrl(repo, v, <<>>)

loopStepMutRetry(ok, last) == IF ok THEN "break" ELSE "continue"

loopStepMutNoBreak(ok, last) == IF last THEN "end" ELSE "continue"

\* for (const v of versionsToTry) { ...; if (await checkUrlExists(url)) { ...; break; } }
loopStep(ok, last) == IF ok THEN "break" ELSE IF last THEN "end" ELSE "continue"

\* where validateThemeRelease goes after a mode's check: the next listed mode
afterLocateTheme(modes) ==
  IF hasElem(modes, Dark) THEN "dark" ELSE IF hasElem(modes, Light) THEN "light" ELSE "return"

\* One iteration of the for loop over versionsToTry, lines 84-97 and 141-153:
\* the HEAD probe of the required asset at the next candidate tag.
Probe ==
  /\ pc = "InReleases"
  /\ rpc = "locate"
  /\ Len(probes) < Len(versionsToTry)
  /\ \E resp \in Responses :
       LET kind == rEntry[1]
           e == rEntry[2]
           v == versionsToTry[Len(probes) + 1]
           ok == checkUrlExists(resp)
           last == Len(probes) + 1 = Len(versionsToTry)
           next == IF kind = "plugins" THEN "manifest" ELSE afterLocateTheme(modesOf(e))
           url == IF ok THEN resolvedBase(e.repo, e.version, v) ELSE baseUrl
       IN /\ netLog' = netLog \cup netKinds("http-head", resp)
          /\ probes' = Append(probes, <<v, ok, getAssetUrl(e.repo, v, requiredAsset(kind))>>)
          /\ baseUrl' = url
          /\ foundVersion' = IF ok THEN v ELSE foundVersion
          /\ IF loopStep(ok, last) = "continue"
               THEN /\ diag' = diag
                    /\ UNCHANGED <<rpc, entryLog, allValid, rExit>>
               ELSE IF Falsy(url)
                 THEN /\ diag' = diag \cup {"asset-not-found"}
                      /\ FinishEntry(rEntry, FALSE)
                 ELSE /\ diag' = diag
                      /\ IF next = "return"
                           THEN FinishEntry(rEntry, TRUE)
                           ELSE /\ rpc' = next
                                /\ UNCHANGED <<entryLog, allValid, rExit>>
  /\ UNCHANGED <<files, rArgs, rQueue, rEntry, versionsToTry, manifest, requests, entryValid>>
  /\ UNCHANGED orchVars
  /\ UNCHANGED rsVars


\* ------------------------------------------------ ReleaseManifestValidator

manifestChecksMutShortCircuit(doc, e) ==
  IF doc.id # e.id THEN {"id-mismatch"}
  ELSE IF doc.version # e.version THEN {"version-mismatch"} ELSE {}

manifestChecksMutIdOnly(doc, e) ==
  IF doc.id # e.id THEN {"id-mismatch"} ELSE {}

\* validatePluginRelease, lines 109-117: the two independent comparisons,
\* each logging its own diagnostic.
manifestChecks(doc, e) ==
  (IF doc.id # e.id THEN {"id-mismatch"} ELSE {})
  \cup (IF doc.version # e.version THEN {"version-mismatch"} ELSE {})

\* validatePluginRelease, lines 101-117: GET manifest.json under baseUrl.
FetchManifest ==
  /\ pc = "InReleases"
  /\ rpc = "manifest"
  /\ \E resp \in ManifestResponses :
       LET doc == fetchJson(resp)
           e == rEntry[2]
       IN /\ netLog' = netLog \cup netKinds("http-get", resp.status)
          /\ manifest' = doc
          /\ requests' = Append(requests, <<baseUrl \o ManifestJson, doc.ok>>)
          /\ IF ~doc.ok
               THEN /\ diag' = diag \cup {"manifest-missing"}
                    /\ entryValid' = entryValid
                    /\ FinishEntry(rEntry, FALSE)
               ELSE /\ diag' = diag \cup manifestChecks(doc, e)
                    /\ entryValid' = (manifestChecks(doc, e) = {})
                    /\ rpc' = "styles"
                    /\ UNCHANGED <<entryLog, allValid, rExit>>
  /\ UNCHANGED <<files, rArgs, rQueue, rEntry, versionsToTry, probes, baseUrl, foundVersion>>
  /\ UNCHANGED orchVars
  /\ UNCHANGED rsVars

stylesResultMutRequired(manifestValid, hasStyles) == manifestValid /\ hasStyles

\* validatePluginRelease, lines 119-124: hasStyles is only logged; the
\* function returns manifestValid.
stylesResult(manifestValid, hasStyles) == manifestValid

\* validatePluginRelease, lines 119-124: the optional styles.css, then
\* return manifestValid.
ProbeStyles ==
  /\ pc = "InReleases"
  /\ rpc = "styles"
  /\ \E resp \in Responses :
       LET hasStyles == checkUrlExists(resp)
       IN /\ netLog' = netLog \cup netKinds("http-head", resp)
          /\ requests' = Append(requests, <<baseUrl \o StylesCss, hasStyles>>)
          /\ FinishEntry(rEntry, stylesResult(entryValid, hasStyles))
  /\ UNCHANGED <<files, rArgs, rQueue, rEntry, versionsToTry, probes, baseUrl,
                 foundVersion, manifest, diag, entryValid>>
  /\ UNCHANGED orchVars
  /\ UNCHANGED rsVars

\* validateThemeRelease, lines 160-168: dark.css when modes includes 'dark'
ProbeDark ==
  /\ pc = "InReleases"
  /\ rpc = "dark"
  /\ \E resp \in Responses :
       LET ok == checkUrlExists(resp)
           cssValid == IF ~ok THEN FALSE ELSE entryValid
       IN /\ netLog' = netLog \cup netKinds("http-head", resp)
          /\ requests' = Append(requests, <<baseUrl \o DarkCss, ok>>)
          /\ diag' = IF ~ok THEN diag \cup {"missing-dark-css"} ELSE diag \cup {"found-dark-css"}
          /\ entryValid' = cssValid
          /\ IF hasElem(modesOf(rEntry[2]), Light)
               THEN /\ rpc' = "light"
                    /\ UNCHANGED <<entryLog, allValid, rExit>>
               ELSE FinishEntry(rEntry, cssValid)
  /\ UNCHANGED <<files, rArgs, rQueue, rEntry, versionsToTry, probes, baseUrl,
                 foundVersion, manifest>>
  /\ UNCHANGED orchVars
  /\ UNCHANGED rsVars

\* validateThemeRelease, lines 170-180: light.css when modes includes
\* 'light', then return cssValid.
ProbeLight ==
  /\ pc = "InReleases"
  /\ rpc = "light"
  /\ \E resp \in Responses :
       LET ok == checkUrlExists(resp)
           cssValid == IF ~ok THEN FALSE ELSE entryValid
       IN /\ netLog' = netLog \cup netKinds("http-head", resp)
          /\ requests' = Append(requests, <<baseUrl \o LightCss, ok>>)
          /\ diag' = IF ~ok THEN diag \cup {"missing-light-css"} ELSE diag \cup {"found-light-css"}
          /\ entryValid' = cssValid
          /\ FinishEntry(rEntry, cssValid)
  /\ UNCHANGED <<files, rArgs, rQueue, rEntry, versionsToTry, probes, baseUrl,
                 foundVersion, manifest>>
  /\ UNCHANGED orchVars
  /\ UNCHANGED rsVars

releasesExitMutAlwaysOk(done, code, valid) == ExitOk

\* main, lines 226-232: exit(1) unless allValid; an earlier exit keeps its code
releasesExit(done, code, valid) == IF done THEN code ELSE IF valid THEN ExitOk ELSE ExitFail

\* validate-releases.mjs exits and runScript returns exitCode === 0 to
\* main of validate-pr.mjs (lines 76 and 84), which folds it into success.
ReleasesReturn ==
  /\ pc = "InReleases"
  /\ rpc = "done" \/ (rpc = "next" /\ rQueue = <<>>)
  /\ LET code == releasesExit(rpc = "done", rExit, allValid)
     IN /\ success' = fold(success, code = ExitOk)
        /\ stageLog' = Append(stageLog, <<"releases", Head(stages)[2], code = ExitOk>>)
  /\ stages' = Tail(stages)
  /\ pc' = "Validating"
  /\ rpc' = "idle" /\ rArgs' = <<>> /\ rQueue' = <<>> /\ rEntry' = NoEntry
  /\ versionsToTry' = <<>> /\ probes' = <<>> /\ baseUrl' = <<>> /\ foundVersion' = <<>>
  /\ manifest' = NullDoc /\ requests' = <<>> /\ diag' = {} /\ entryValid' = TRUE
  /\ allValid' = TRUE /\ rExit' = -1
  /\ UNCHANGED <<files, actualChanged, diffFailed, changedFiles, pluginsModified,
                 themesModified, exitCode, verdict, netLog, labelCalls, scanned, entryLog>>
  /\ UNCHANGED rsVars

\* ------------------------------------------------- labeling and verdict

labelsToAddMutAlwaysReview(p, t, ok) ==
  (IF p THEN {"plugin"} ELSE {}) \cup (IF t THEN {"theme"} ELSE {})
  \cup {"waiting-for-review"}

\* main, lines 95-105: labelsToAdd and labelsToRemove
labelsToAdd(p, t, ok) ==
  (IF p THEN {"plugin"} ELSE {}) \cup (IF t THEN {"theme"} ELSE {})
  \cup (IF ok THEN {"waiting-for-review"} ELSE {"validation-error"})

labelsToRemove(ok) == IF ok THEN {"validation-error"} ELSE {"waiting-for-review"}

\* main, lines 87-119: with PR_NUMBER set, gh pr edit --add-label and
\* --remove-label (both lists are never empty).  addOk, removeOk: whether
\* each gh command succeeds; runGitCommand logs a failure and returns.
Label ==
  /\ pc = "Validating"
  /\ stages = <<>>
  /\ \E prNumber \in BOOLEAN, addOk \in BOOLEAN, removeOk \in BOOLEAN :
       IF prNumber
         THEN /\ labelCalls' =
                   << <<"add", labelsToAdd(pluginsModified, themesModified, success), addOk>>,
                      <<"remove", labelsToRemove(success), removeOk>> >>
              /\ netLog' = netLog \cup {"gh"}
         ELSE UNCHANGED <<labelCalls, netLog>>
  /\ pc' = "Labeled"
  /\ UNCHANGED <<files, actualChanged, diffFailed, changedFiles, pluginsModified,
                 themesModified, success, stages, stageLog, exitCode, verdict, scanned>>
  /\ UNCHANGED relVars
  /\ UNCHANGED rsVars

verdictExitMutOk(ok) == ExitOk

\* main, lines 121-127
verdictExit(ok) == IF ~ok THEN ExitFail ELSE ExitOk

Conclude ==
  /\ pc = "Labeled"
  /\ exitCode' = verdictExit(success)
  /\ verdict' = IF success THEN "Pass" ELSE "Fail"
  /\ pc' = "Exited"
  /\ UNCHANGED <<files, actualChanged, diffFailed, changedFiles, pluginsModified,
                 themesModified, success, stages, stageLog, netLog, labelCalls, scanned>>
  /\ UNCHANGED relVars
  /\ UNCHANGED rsVars

Next ==
  \/ Classify
  \/ Reject
  \/ Skip
  \/ BeginValidation
  \/ RunValidateJson
  \/ RunValidatePlugins
  \/ RunValidateReleases
  \/ StartEntry
  \/ Probe
  \/ FetchManifest
  \/ ProbeStyles
  \/ ProbeDark
  \/ ProbeLight
  \/ ReleasesReturn
  \/ Label
  \/ Conclude

Spec == Init /\ [][Next]_vars

\* The scripts are sequential and every spawn of main is spawnSync: the
\* statement that is next in the program is executed, so a run that can
\* take a step takes one.
SpecFair == Spec /\ WF_vars(Next)


\* ------------------------------------- the resolver on arbitrary snapshots

ResolverEntries ==
  {Entry(i, v, r, Undefined) : i \in Ids, v \in {V120, VV120, Undefined}, r \in {RepoA, RepoB}}

\* A registry on origin/main passed validate-json.mjs: its ids are unique.
ResolverBases ==
  {[show |-> "printed", items |-> b] :
     b \in {x \in SeqUpTo(ResolverEntries, MaxEntries) : idsUnique(x)}}
  \cup {[show |-> o, items |-> <<>>] : o \in ShowOutcomes \ {"printed"}}

InitResolve ==
  /\ rsCur \in SeqUpTo(ResolverEntries, MaxEntries)
  /\ rsBase \in ResolverBases
  /\ rsOut = <<>>
  /\ rsPc = "ready"
  /\ files = [plugins |-> Snapshot(<<>>, NoBase), themes |-> Snapshot(<<>>, NoBase)]
  /\ pc = "off"
  /\ actualChanged = <<>>
  /\ diffFailed = FALSE
  /\ changedFiles = <<>>
  /\ pluginsModified = FALSE
  /\ themesModified = FALSE
  /\ success = TRUE
  /\ stages = <<>>
  /\ stageLog = <<>>
  /\ exitCode = -1
  /\ verdict = "none"
  /\ netLog = {}
  /\ labelCalls = <<>>
  /\ scanned = <<>>
  /\ RelIdle

\* getModifiedItems applied to the two snapshots
Resolve ==
  /\ rsPc = "ready"
  /\ rsOut' = getModifiedItems(rsCur, rsBase)
  /\ rsPc' = "done"
  /\ UNCHANGED <<rsCur, rsBase, files, netLog>>
  /\ UNCHANGED orchVars
  /\ UNCHANGED relVars

NextResolve == Resolve

SpecResolve == InitResolve /\ [][NextResolve]_vars

\* ----------------------------------------------------------- the claims

Both == touches(changedFiles, PLUGINS_FILE) /\ touches(changedFiles, THEMES_FILE)
Neither == ~touches(changedFiles, PLUGINS_FILE) /\ ~touches(changedFiles, THEMES_FILE)
PluginsOnly == touches(changedFiles, PLUGINS_FILE) /\ ~touches(changedFiles, THEMES_FILE)
ThemesOnly == ~touches(changedFiles, PLUGINS_FILE) /\ touches(changedFiles, THEMES_FILE)
OnlyKind == IF PluginsOnly THEN "plugins" ELSE "themes"

HttpKinds == {"http-head", "http-get"}

\* The ChangeSet of a registry of the run.
ChangeSet(kind) == getModifiedItems(files[kind].cur, files[kind].base)

\* C1: in a run classified Both no HTTP request is made, no format check,
\* scan or release validation is started, the only step left is the
\* rejection, and the run exits with status 1, whatever the registries hold.
C1_BothShortCircuits ==
  (pc # "Start" /\ Both) =>
    /\ netLog \cap HttpKinds = {}
    /\ stageLog = <<>>
    /\ scanned = <<>>
    /\ entryLog = <<>>
    /\ rpc = "idle"
    /\ pc \in {"Classified", "Exited"}
    /\ (pc = "Classified" => ENABLED Reject /\ ~ENABLED BeginValidation /\ ~ENABLED Skip)
    /\ (pc = "Exited" => exitCode = 1 /\ verdict = "Rejected")

C1_Witness ==
  /\ pc = "Exited"
  /\ Both
  /\ exitCode = 1
  /\ ChangeSet("plugins") # <<>>
  /\ ChangeSet("themes") # <<>>

\* C2 as stated: a run whose diff touches both registries exits non-zero
\* with the exclusivity message and has performed no network operation at all.
C2_ZeroNetworkCalls ==
  (pc = "Exited" /\ Both) => (exitCode # 0 /\ verdict = "Rejected" /\ netLog = {})

\* C2 amended: such a run exits non-zero with the exclusivity message and
\* its only network operation is the git fetch of origin/main made before
\* the diff: no HTTP request, no clone, no labeling call.
C2_OnlyTheFetch ==
  (pc = "Exited" /\ Both) =>
    /\ exitCode # 0
    /\ verdict = "Rejected"
    /\ netLog = {"git-fetch"}
    /\ labelCalls = <<>>

C2_Witness ==
  /\ pc = "Exited"
  /\ changedFiles = <<PLUGINS_FILE, THEMES_FILE>>
  /\ verdict = "Rejected"
  /\ netLog = {"git-fetch"}

\* Every check of the run passed, read from the outcome of each check: the
\* planned sub-scripts all ran, the format check and the scan passed, and
\* every entry of the ChangeSet was release-validated as valid.
AllChecksPassed ==
  /\ Len(stageLog) = Len(stagePlan(PluginsOnly, ThemesOnly))
  /\ \A i \in 1..Len(stageLog) : stageLog[i][1] \in {"json", "scan"} => stageLog[i][3]
  /\ Len(entryLog) = Len(ChangeSet(OnlyKind))
  /\ \A i \in 1..Len(entryLog) : entryLog[i][3] = "valid"

SomeCheckFailed ==
  \/ \E i \in 1..Len(stageLog) : stageLog[i][1] \in {"json", "scan"} /\ ~stageLog[i][3]
  \/ \E i \in 1..Len(entryLog) : entryLog[i][3] # "valid"

\* C3: at exit the status is 0 iff the classification is Neither, or it is
\* PluginsOnly/ThemesOnly and every check passed; it is non-zero iff the
\* classification is Both or some check failed.
C3_ExitEncodesVerdict ==
  pc = "Exited" =>
    /\ exitCode \in {0, 1}
    /\ exitCode = 0 <=> (Neither \/ ((PluginsOnly \/ ThemesOnly) /\ AllChecksPassed))
    /\ exitCode # 0 <=> (Both \/ SomeCheckFailed)

C3_Witness ==
  /\ pc = "Exited"
  /\ PluginsOnly
  /\ exitCode = 0
  /\ Len(entryLog) = 2
  /\ Len(stageLog) = 3

\* C4 as stated: in a PluginsOnly/ThemesOnly run every planned stage is
\* executed whatever the earlier stages returned, and release validation
\* validates every entry of the ChangeSet whatever the earlier entries did.
C4_NoCheckAborts ==
  (pc = "Exited" /\ (PluginsOnly \/ ThemesOnly)) =>
    /\ Len(stageLog) = Len(stagePlan(PluginsOnly, ThemesOnly))
    /\ \A i \in 1..Len(stageLog) : stageLog[i][1] = stagePlan(PluginsOnly, ThemesOnly)[i][1]
    /\ Len(entryLog) = Len(ChangeSet(OnlyKind))


\* An entry of sequence s
InSeq(s, e) == \E i \in 1..Len(s) : s[i] = e

\* C5: with the base snapshot available, every entry the resolver returns
\* has no entry of the same id in base, or a version different from that of
\* the base entry of its id; and a current entry whose id is in base with
\* the very same version string is not returned, whatever its other fields.
C5_OnlyNewOrVersionChanged ==
  (rsPc = "done" /\ rsBase.show = "printed") =>
    /\ \A i \in 1..Len(rsOut) :
         \/ \A j \in 1..Len(rsBase.items) : rsBase.items[j].id # rsOut[i].id
         \/ \A j \in 1..Len(rsBase.items) :
              rsBase.items[j].id = rsOut[i].id => rsBase.items[j].version # rsOut[i].version
    /\ \A i \in 1..Len(rsCur) :
         (\E j \in 1..Len(rsBase.items) :
            /\ rsBase.items[j].id = rsCur[i].id
            /\ rsBase.items[j].version = rsCur[i].version)
         => ~InSeq(rsOut, rsCur[i])

\* an entry kept out although its repo changed, beside one that is returned
C5_Witness ==
  /\ rsPc = "done"
  /\ rsBase.show = "printed"
  /\ Len(rsCur) = 2
  /\ Len(rsOut) = 1
  /\ \E j \in 1..Len(rsBase.items) :
       /\ rsBase.items[j].id = rsCur[1].id
       /\ rsBase.items[j].version = rsCur[1].version
       /\ rsBase.items[j].repo # rsCur[1].repo
  /\ rsOut[1] = rsCur[2]

\* C6: when git show of the registry at origin/main prints nothing, fails
\* or cannot be spawned, the resolver returns the current snapshot whole.
C6_FailOpen ==
  (rsPc = "done" /\ rsBase.show # "printed") => rsOut = rsCur

C6_Witness ==
  /\ rsPc = "done"
  /\ rsBase.show = "failed"
  /\ Len(rsCur) = 2
  /\ rsOut = rsCur

\* C7 as stated, for the diff: when git diff fails in a run whose pull
\* request changed one registry, the run still release-validates it.
C7_DiffFailureStillValidates ==
  (pc = "Exited" /\ diffFailed
     /\ touches(actualChanged, PLUGINS_FILE) /\ ~touches(actualChanged, THEMES_FILE))
  => \E i \in 1..Len(stageLog) : stageLog[i][1] = "releases" /\ stageLog[i][2] = "plugins"

\* C8: the candidate tags of the entry under validation are <<version>> when
\* the version starts with "v" and <<version, "v" + version>> otherwise, for a
\* plugin and for a theme alike: "1.2.0" gives <<"1.2.0", "v1.2.0">> and
\* "v1.2.0" gives <<"v1.2.0">>.
C8_CandidateTags ==
  (rEntry # NoEntry /\ ~Falsy(rEntry[2].version)) =>
    LET v == rEntry[2].version
    IN /\ rEntry[1] \in {"plugins", "themes"}
       /\ (v[1] = "v" => versionsToTry = <<v>>)
       /\ (v[1] # "v" => versionsToTry = <<v, <<"v">> \o v>>)
       /\ (v = <<"1", ".", "2", ".", "0">> =>
             versionsToTry = << <<"1", ".", "2", ".", "0">>, <<"v", "1", ".", "2", ".", "0">> >>)
       /\ (v = <<"v", "1", ".", "2", ".", "0">> =>
             versionsToTry = << <<"v", "1", ".", "2", ".", "0">> >>)

C8_Witness ==
  /\ rEntry # NoEntry
  /\ rEntry[1] = "themes"
  /\ rEntry[2].version = V120
  /\ Len(versionsToTry) = 2
  /\ Len(probes) = 2

\* The locator has ended for the entry under validation.
LocatorEnded == rEntry # NoEntry /\ versionsToTry # <<>> /\ rpc \notin {"locate", "done", "idle"}

\* C9: the probes of the required asset are the candidates in list order,
\* one probe each, ending with the first success; the resolved tag is the
\* candidate of that success; the entry is NotFound (and fails) iff every
\* candidate was probed with a negative answer.
C9_ProbesArePrefix ==
  LET n == Len(probes)
      found == n > 0 /\ probes[n][2]
      notFound == "asset-not-found" \in diag
  IN /\ n <= Len(versionsToTry)
     /\ \A i \in 1..n : probes[i][1] = versionsToTry[i]
     /\ \A i \in 1..(n - 1) : ~probes[i][2]
     /\ found <=> foundVersion # <<>>
     /\ found => foundVersion = versionsToTry[n]
     /\ notFound <=> (n > 0 /\ n = Len(versionsToTry) /\ \A i \in 1..n : ~probes[i][2])
     /\ notFound => (rpc = "next" /\ entryLog[Len(entryLog)][3] = "invalid")
     /\ rpc = "locate" => ~found /\ n < Len(versionsToTry)
     /\ LocatorEnded => (found \/ notFound)

C9_Witness ==
  /\ Len(probes) = 2
  /\ ~probes[1][2]
  /\ probes[2][2]
  /\ probes[1][1] = V120
  /\ foundVersion = VV120
  /\ rpc = "manifest"

\* The plugin entry under validation has a located main.js and its
\* validation has returned.
PluginReturned ==
  /\ rEntry # NoEntry
  /\ rEntry[1] = "plugins"
  /\ foundVersion # <<>>
  /\ rpc = "next"

\* C10: a plugin entry with a located main.js passes iff manifest.json came
\* back as a document whose id is the entry's id and whose version is the
\* entry's version (the registry string, not the resolved tag); each of the
\* two comparisons reports its own mismatch.
C10_ManifestDecides ==
  /\ PluginReturned =>
       LET e == rEntry[2]
           result == entryLog[Len(entryLog)]
       IN /\ result[2] = e.id
          /\ result[3] = "valid" <=>
               (manifest.ok /\ manifest.id = e.id /\ manifest.version = e.version)
          /\ manifest.ok => ("id-mismatch" \in diag <=> manifest.id # e.id)
          /\ manifest.ok => ("version-mismatch" \in diag <=> manifest.version # e.version)
          /\ ~manifest.ok <=> "manifest-missing" \in diag
  /\ (rpc = "styles" /\ rEntry[1] = "plugins") =>
       /\ manifest.ok
       /\ "id-mismatch" \in diag <=> manifest.id # rEntry[2].id
       /\ "version-mismatch" \in diag <=> manifest.version # rEntry[2].version

\* both mismatches reported for one entry, located under the "v" tag, whose
\* manifest carries the tag instead of the registry version
C10_Witness ==
  /\ PluginReturned
  /\ rEntry[2].version = V120
  /\ foundVersion = VV120
  /\ manifest.ok
  /\ manifest.version = VV120
  /\ {"id-mismatch", "version-mismatch"} \subseteq diag
  /\ entryLog[Len(entryLog)][3] = "invalid"

\* The theme entry under validation has a located theme.json and its
\* validation has returned.
ThemeReturned ==
  /\ rEntry # NoEntry
  /\ rEntry[1] = "themes"
  /\ foundVersion # <<>>
  /\ rpc = "next"

\* The modes an entry lists: {dark} when modes is absent.
ListedModes(e) ==
  IF e.modes = Undefined THEN {Dark} ELSE {e.modes[i] : i \in 1..Len(e.modes)}

\* The stylesheet probes made for the entry under validation, as a set of
\* <<asset, found>>.
CssProbes(asset) == {i \in 1..Len(requests) : requests[i][1] = baseUrl \o asset}

CssFound(asset) == \E i \in CssProbes(asset) : requests[i][2]

\* C11: a theme entry with a located theme.json passes iff dark.css exists
\* under the resolved base URL when dark is listed and light.css exists when
\* light is listed (modes absent counts as dark alone); the stylesheet of a
\* mode that is not listed is not probed; a listed mode is probed once,
\* whatever the probe of the other mode answered, and each probe reports
\* its own finding.
C11_ThemeModesDecide ==
  ThemeReturned =>
    LET e == rEntry[2]
        result == entryLog[Len(entryLog)]
        dark == Dark \in ListedModes(e)
        light == Light \in ListedModes(e)
    IN /\ result[2] = e.id
       /\ result[3] = "valid" <=>
            ((dark => CssFound(DarkCss)) /\ (light => CssFound(LightCss)))
       /\ Cardinality(CssProbes(DarkCss)) = (IF dark THEN 1 ELSE 0)
       /\ Cardinality(CssProbes(LightCss)) = (IF light THEN 1 ELSE 0)
       /\ Len(requests) = Cardinality(CssProbes(DarkCss)) + Cardinality(CssProbes(LightCss))
       /\ dark => ("found-dark-css" \in diag <=> CssFound(DarkCss))
       /\ dark => ("missing-dark-css" \in diag <=> ~CssFound(DarkCss))
       /\ light => ("found-light-css" \in diag <=> CssFound(LightCss))
       /\ light => ("missing-light-css" \in diag <=> ~CssFound(LightCss))

\* Scenario E: modes light and dark, only dark.css in the release
C11_Witness ==
  /\ ThemeReturned
  /\ rEntry[2].modes = <<Light, Dark>>
  /\ CssFound(DarkCss)
  /\ ~CssFound(LightCss)
  /\ CssProbes(LightCss) # {}
  /\ {"found-dark-css", "missing-light-css"} \subseteq diag
  /\ entryLog[Len(entryLog)][3] = "invalid"

\* C12: the step that probes styles.css ends the validation of the plugin
\* entry with the result the manifest comparison had already fixed: the
\* entry is logged valid iff the manifest was valid, the overall result is
\* folded with that same value and no diagnostic is added, whichever of
\* present, absent or error the probe answers.
C12_StylesNeverDecides ==
  [][(rpc = "styles" /\ rpc' # "styles") =>
       /\ rpc' = "next"
       /\ entryLog' = Append(entryLog, <<"plugins", rEntry[2].id,
                                         IF entryValid THEN "valid" ELSE "invalid">>)
       /\ allValid' = (allValid /\ entryValid)
       /\ diag' = diag
       /\ rExit' = rExit
       /\ Len(requests') = Len(requests) + 1
       /\ requests'[Len(requests')][1] = baseUrl \o StylesCss]_vars

\* a plugin found valid although its release has no styles.css
C12_Witness ==
  /\ PluginReturned
  /\ Len(requests) = 2
  /\ requests[2] = <<baseUrl \o StylesCss, FALSE>>
  /\ entryLog[Len(entryLog)][3] = "valid"
  /\ allValid

\* C13: the run ends Skipped iff its classification is Neither; from the
\* classified state the Skipped transition is possible iff the
\* classification is Neither; a Skipped run has exit status 0 and has run no
\* format check, no scan and no release validation (no stage, no clone, no
\* entry, no request, no labeling).
C13_SkippedIffNeither ==
  /\ verdict = "Skipped" <=> (pc = "Exited" /\ Neither)
  /\ pc = "Classified" => (ENABLED Skip <=> Neither)
  /\ verdict = "Skipped" =>
       /\ exitCode = 0
       /\ stageLog = <<>>
       /\ scanned = <<>>
       /\ entryLog = <<>>
       /\ rpc = "idle"
       /\ probes = <<>> /\ requests = <<>>
       /\ netLog \cap (HttpKinds \cup {"git-clone"}) = {}
       /\ labelCalls = <<>>

\* a change of the README alone, beside registries that do hold new entries
C13_Witness ==
  /\ pc = "Exited"
  /\ verdict = "Skipped"
  /\ changedFiles = <<README>>
  /\ exitCode = 0
  /\ ChangeSet("plugins") # <<>>

\* name occurs in path as a run of consecutive characters
Contains(path, name) ==
  \E i \in 1..(Len(path) - Len(name) + 1) : \A k \in 1..Len(name) : path[i + k - 1] = name[k]

\* some changed path contains the filename of the registry
Touched(name) == \E i \in 1..Len(changedFiles) : Contains(changedFiles[i], name)

\* C14: once the change is classified, the two flags of the classifier say
\* for each registry whether some changed path contains its filename as a
\* substring; exactly one of PluginsOnly, ThemesOnly, Neither, Both holds;
\* exactly one of the transitions Rejected, Skipped, Validating is possible
\* from the classified state (Rejected for Both, Skipped for Neither,
\* Validating for PluginsOnly and ThemesOnly) and the run is never found
\* past a transition that its classification does not select.
C14_ClassifierExclusive ==
  pc # "Start" =>
    LET P == Touched(PLUGINS_FILE)
        T == Touched(THEMES_FILE)
        both == Both
        neither == Neither
        pluginsOnly == PluginsOnly
        themesOnly == ThemesOnly
    IN /\ pluginsModified = P
       /\ themesModified = T
       /\ both <=> (P /\ T)
       /\ neither <=> (~P /\ ~T)
       /\ pluginsOnly <=> (P /\ ~T)
       /\ themesOnly <=> (~P /\ T)
       /\ Cardinality({c \in {"Both", "Neither", "PluginsOnly", "ThemesOnly"} :
                         \/ c = "Both" /\ both
                         \/ c = "Neither" /\ neither
                         \/ c = "PluginsOnly" /\ pluginsOnly
                         \/ c = "ThemesOnly" /\ themesOnly}) = 1
       /\ pc = "Classified" =>
            /\ ENABLED Reject <=> (P /\ T)
            /\ ENABLED Skip <=> (~P /\ ~T)
            /\ ENABLED BeginValidation <=> (P # T)
            /\ Cardinality({a \in {"Reject", "Skip", "BeginValidation"} :
                              \/ a = "Reject" /\ ENABLED Reject
                              \/ a = "Skip" /\ ENABLED Skip
                              \/ a = "BeginValidation" /\ ENABLED BeginValidation}) = 1
       /\ verdict = "Rejected" => (P /\ T)
       /\ verdict = "Skipped" => (~P /\ ~T)
       /\ (pc \in {"Validating", "InReleases", "Labeled"} \/ verdict \in {"Pass", "Fail"}) => (P # T)

\* docs/themes.json.md is no registry, but it contains "themes.json": with
\* plugins.json the change is Both and the run is rejected
C14_Witness ==
  /\ changedFiles = <<PLUGINS_FILE, DocsThemes>>
  /\ themesModified
  /\ verdict = "Rejected"

\* C15: under fair scheduling every run of the orchestrator reaches its
\* exit, as Rejected, Skipped or Concluded, and every run of the release
\* validator returns to the orchestrator, whatever the remote hosts answer:
\* a request that errors or stalls counts as a negative answer and the
\* validation goes on.
C15_AlwaysTerminates ==
  /\ <>(pc = "Exited" /\ verdict \in {"Rejected", "Skipped", "Pass", "Fail"})
  /\ (pc = "InReleases") ~> (pc = "Validating")

\* a run that met a transport error and a stalled host, and has exited
C15_Witness ==
  /\ pc = "Exited"
  /\ verdict = "Fail"
  /\ TransportFailures \subseteq netLog
  /\ Len(entryLog) = 2

\* The stages the claim expects of a run, by classification.
ExpectedStages ==
  IF PluginsOnly THEN <<"json", "scan", "releases">>
  ELSE IF ThemesOnly THEN <<"json", "releases">> ELSE <<>>

\* C16: in a PluginsOnly run the stages that have finished are, in order, a
\* prefix of format check, scan, release validation, and in a ThemesOnly
\* run a prefix of format check, release validation, all on the registry of
\* the run; a stage starts only when the stages before it have finished
\* (at most one can start at a time, none while release validation is
\* running, and no entry is release-validated before the earlier stages are
\* over); the run is concluded only after all of them; the scan is never
\* run in a ThemesOnly run.
C16_StageOrder ==
  pc \notin {"Start", "Classified"} =>
    LET expected == ExpectedStages
        kind == OnlyKind
        pluginsOnly == PluginsOnly
        n == Len(stageLog)
        m == Len(expected)
    IN expected # <<>> =>
       /\ n <= m
       /\ \A i \in 1..n : stageLog[i][1] = expected[i] /\ stageLog[i][2] = kind
       /\ pc = "Validating" =>
            /\ Cardinality({a \in {"json", "scan", "releases"} :
                              \/ a = "json" /\ ENABLED RunValidateJson
                              \/ a = "scan" /\ ENABLED RunValidatePlugins
                              \/ a = "releases" /\ ENABLED RunValidateReleases}) <= 1
            /\ (n < m /\ expected[n + 1] = "json") => ENABLED RunValidateJson
            /\ (n < m /\ expected[n + 1] = "scan") => ENABLED RunValidatePlugins
            /\ (n < m /\ expected[n + 1] = "releases") => ENABLED RunValidateReleases
            /\ ENABLED Label <=> n = m
       /\ pc = "InReleases" =>
            /\ n = m - 1
            /\ ~ENABLED RunValidateJson /\ ~ENABLED RunValidatePlugins
            /\ ~ENABLED RunValidateReleases /\ ~ENABLED Label
       /\ (entryLog # <<>> \/ rpc # "idle") => n >= m - 1
       /\ scanned # <<>> => (pluginsOnly /\ n >= 2)
       /\ pc \in {"Labeled", "Exited"} => n = m
       /\ ~pluginsOnly =>
            /\ scanned = <<>>
            /\ "git-clone" \notin netLog
            /\ \A i \in 1..n : stageLog[i][1] # "scan"

\* a plugin run whose format check failed and whose scan and release
\* validation ran all the same, in that order
C16_Witness ==
  /\ pc = "Exited"
  /\ PluginsOnly
  /\ Len(stageLog) = 3
  /\ stageLog[1][1] = "json" /\ ~stageLog[1][3]
  /\ stageLog[2][1] = "scan"
  /\ stageLog[3][1] = "releases"
  /\ scanned # <<>>
  /\ entryLog # <<>>

\* C17 as stated, for a run that passes: in a PluginsOnly run concluded
\* with the verdict pass, every plugin entry of the ChangeSet (new, or with
\* a version that differs from that of its base counterpart) has been
\* scanned.
C17_ChangedEntriesScanned ==
  (pc = "Exited" /\ PluginsOnly /\ verdict = "Pass") =>
    \A i \in 1..Len(ChangeSet("plugins")) : hasElem(scanned, ChangeSet("plugins")[i].id)

\* The current entry is new, or its version differs from that of the base
\* entry of its id.
NewOrVersionChanged(e) ==
  \/ \A j \in 1..Len(rsBase.items) : rsBase.items[j].id # e.id
  \/ \E j \in 1..Len(rsBase.items) :
       /\ rsBase.items[j].id = e.id
       /\ rsBase.items[j].version # e.version

\* C18: with the base snapshot available, the ChangeSet is the current
\* snapshot restricted to its new or version-changed entries, in the order
\* of the current snapshot: as many entries as there are such positions,
\* taken from those positions in increasing order; so none of them is left
\* out, and an id that is only in base is not in the ChangeSet.
C18_ExactSubsequence ==
  (rsPc = "done" /\ rsBase.show = "printed") =>
    LET idx == {i \in 1..Len(rsCur) : NewOrVersionChanged(rsCur[i])}
    IN /\ Len(rsOut) = Cardinality(idx)
       /\ \E f \in [1..Len(rsOut) -> idx] :
            /\ \A k \in 1..Len(rsOut) : rsOut[k] = rsCur[f[k]]
            /\ \A k \in 1..(Len(rsOut) - 1) : f[k] < f[k + 1]
       /\ \A i \in idx : InSeq(rsOut, rsCur[i])
       /\ \A j \in 1..Len(rsBase.items) :
            (\A i \in 1..Len(rsCur) : rsCur[i].id # rsBase.items[j].id)
            => \A k \in 1..Len(rsOut) : rsOut[k].id # rsBase.items[j].id

\* Scenario B: the current snapshot keeps the base entry and adds one
C18_Witness ==
  /\ rsPc = "done"
  /\ rsBase.show = "printed"
  /\ Len(rsBase.items) = 1
  /\ Len(rsCur) = 2
  /\ rsCur[1] = rsBase.items[1]
  /\ rsCur[2].id # rsCur[1].id
  /\ rsOut = <<rsCur[2]>>

\* C19: the labeling is done at most once in a run (one gh command that
\* adds and one that removes labels, and nothing once they are made), only
\* with all stages of the run finished and the release validator back, and
\* the result of the checks does not change afterwards; whether the gh
\* commands succeed or fail, the exit status is 0 iff every stage passed;
\* waiting-for-review is added and validation-error removed iff the verdict
\* is pass, validation-error is added and waiting-for-review removed iff it
\* is fail.
C19_LabelOnceAfterVerdict ==
  /\ [](labelCalls # <<>> =>
         /\ Len(labelCalls) = 2
         /\ labelCalls[1][1] = "add" /\ labelCalls[2][1] = "remove"
         /\ pc \in {"Labeled", "Exited"}
         /\ PluginsOnly \/ ThemesOnly
         /\ Len(stageLog) = Len(ExpectedStages)
         /\ stages = <<>> /\ rpc = "idle"
         /\ LET pass == \A i \in 1..Len(stageLog) : stageLog[i][3]
                add == labelCalls[1][2]
                remove == labelCalls[2][2]
            IN /\ pass <=> ("waiting-for-review" \in add /\ "validation-error" \in remove)
               /\ ~pass <=> ("validation-error" \in add /\ "waiting-for-review" \in remove)
               /\ add \cap remove = {}
               /\ pc = "Exited" => (verdict = "Pass" <=> pass) /\ (verdict = "Fail" <=> ~pass)
               /\ pc = "Exited" => (exitCode = 0 <=> pass) /\ (exitCode = 1 <=> ~pass))
  /\ [](verdict \in {"Rejected", "Skipped"} => labelCalls = <<>>)
  /\ [][labelCalls # <<>> => (labelCalls' = labelCalls /\ success' = success
                                /\ stageLog' = stageLog)]_vars

\* a passing run whose two gh commands both failed
C19_Witness ==
  /\ pc = "Exited"
  /\ verdict = "Pass"
  /\ exitCode = 0
  /\ labelCalls # <<>>
  /\ ~labelCalls[1][3]
  /\ ~labelCalls[2][3]
  /\ "waiting-for-review" \in labelCalls[1][2]

\* the URL without its last part, the name of the asset
UrlBase(url) == SubSeq(url, 1, Len(url) - 1)

\* the assets asked for after the required one, by registry
FollowUpAssets(kind) ==
  IF kind = "plugins" THEN {ManifestJson, StylesCss} ELSE {DarkCss, LightCss}

\* C20: every request made for an entry after its locator (manifest.json,
\* styles.css, dark.css, light.css) goes to the URL made of the base of the
\* required-asset probe that succeeded, which is the probe of the resolved
\* tag and the last probe made, followed by the name of the asset, and to
\* the base of no probe that failed; no such request is made for an entry
\* that is NotFound or has no version.
C20_FollowUpsUnderResolvedBase ==
  /\ requests # <<>> =>
       LET n == Len(probes)
       IN /\ rEntry # NoEntry
          /\ n > 0
          /\ probes[n][2]
          /\ probes[n][1] = foundVersion
          /\ baseUrl = UrlBase(probes[n][3])
          /\ \A i \in 1..Len(requests) :
               /\ UrlBase(requests[i][1]) = UrlBase(probes[n][3])
               /\ <<requests[i][1][Len(requests[i][1])]>> \in FollowUpAssets(rEntry[1])
               /\ \A j \in 1..n : ~probes[j][2] => UrlBase(requests[i][1]) # UrlBase(probes[j][3])
  /\ ("asset-not-found" \in diag \/ "missing-version" \in diag \/ foundVersion = <<>>) =>
       requests = <<>>
  /\ rpc \in {"manifest", "styles", "dark", "light"} =>
       (Len(probes) > 0 /\ probes[Len(probes)][2] /\ baseUrl = UrlBase(probes[Len(probes)][3]))

\* the manifest and styles.css of a plugin found under the "v" tag only
C20_Witness ==
  /\ Len(probes) = 2
  /\ ~probes[1][2]
  /\ probes[2][2]
  /\ foundVersion = VV120
  /\ Len(requests) = 2
  /\ requests[1][1] = HttpsHost \o cleanRepo(rEntry[2].repo) \o ReleasesDownload
                         \o VV120 \o Slash \o ManifestJson
  /\ requests[2][1] = UrlBase(probes[2][3]) \o StylesCss

\* The release validator of the run is, or has been, at work.
ReleasesStarted ==
  pc = "InReleases" \/ \E i \in 1..Len(stageLog) : stageLog[i][1] = "releases"

\* C21: the release validator is started with the registry of the run as
\* its argument; the entries it queues, takes and validates are entries of
\* that registry only, the validated ones being the first entries of that
\* registry's ChangeSet in order, so a plugins run validates no theme and a
\* themes run no plugin; when that ChangeSet is empty the validator exits 0
\* with no entry taken and no probe or fetch made in the whole run.
C21_OnlySelectedRegistry ==
  (ReleasesStarted /\ (PluginsOnly \/ ThemesOnly)) =>
    LET kind == OnlyKind
        cs == ChangeSet(kind)
    IN /\ pc = "InReleases" => rArgs = <<kind>>
       /\ \A i \in 1..Len(rQueue) : rQueue[i][1] = kind
       /\ rEntry # NoEntry => rEntry[1] = kind
       /\ probes # <<>> => rEntry # NoEntry
       /\ Len(entryLog) <= Len(cs)
       /\ \A i \in 1..Len(entryLog) :
            entryLog[i][1] = kind /\ entryLog[i][2] = cs[i].id
       /\ pc = "InReleases" => Len(entryLog) + Len(rQueue) <= Len(cs)
       /\ cs = <<>> =>
            /\ entryLog = <<>> /\ rEntry = NoEntry /\ rQueue = <<>>
            /\ probes = <<>> /\ requests = <<>>
            /\ netLog \cap HttpKinds = {}
            /\ pc = "InReleases" => (rpc = "done" /\ rExit = 0)
            /\ pc # "InReleases" =>
                 \A i \in 1..Len(stageLog) : stageLog[i][1] = "releases" => stageLog[i][3]

\* a plugins run that validated its two changed plugins and none of the
\* changed themes
C21_Witness ==
  /\ pc = "Exited"
  /\ PluginsOnly
  /\ ChangeSet("themes") # <<>>
  /\ Len(ChangeSet("plugins")) = 2
  /\ Len(entryLog) = 2
  /\ entryLog[1][1] = "plugins" /\ entryLog[2][1] = "plugins"
  /\ netLog \cap HttpKinds # {}

\* C22 as stated: the entry under validation that has no version (missing
\* or empty) has failed at once with the diagnostic, with no candidate tag,
\* no probe and no fetch; and in a concluded run every entry of the
\* ChangeSet that comes after an entry without a version has been validated
\* to a result, valid or invalid.
C22_VersionlessFailsAlone ==
  /\ (rEntry # NoEntry /\ Falsy(rEntry[2].version)) =>
       /\ versionsToTry = <<>>
       /\ probes = <<>> /\ requests = <<>>
       /\ diag = {"missing-version"}
       /\ rpc = "next"
       /\ entryLog[Len(entryLog)] = <<rEntry[1], rEntry[2].id, "invalid">>
       /\ ~allValid
  /\ (pc = "Exited" /\ (PluginsOnly \/ ThemesOnly)) =>
       LET cs == ChangeSet(OnlyKind)
       IN \A i \in 1..Len(cs) : Falsy(cs[i].version) =>
            \A j \in (i + 1)..Len(cs) :
              /\ Len(entryLog) >= j
              /\ entryLog[j][3] \in {"valid", "invalid"}


====
